---------------------------- MODULE Spec2Model ----------------------------
(***************************************************************************)
(* Model of the carousel rendering core of api-threads-carousel            *)
(* (src/api/services/carousel_generator.py): slide segmentation, content   *)
(* classification and the font resolution chain.                           *)
(*                                                                         *)
(* Text is modelled as a sequence of atoms.  An atom is a run of n equal   *)
(* characters of one kind, or the separator token:                         *)
(*   sp   one space                nl   one newline                        *)
(*   pb   two newlines "\n\n"      sep  the slide separator "========"     *)
(*   w    n letters without case   up   n upper-case letters               *)
(*   lo   n lower-case letters     star one '*'       hash one '#'         *)
(* A run of newlines is written pb* nl?, so that the leftmost match of     *)
(* "\n\n" that str.split takes is always a pb atom.                        *)
(***************************************************************************)
EXTENDS Integers, Sequences, FiniteSets, TLC

VARIABLES text, op, slides, blocks

textVars == <<text, op, slides, blocks>>

VARIABLES
    disk,         \* the font file of each key in fonts_dir
    sysfont,      \* whether a system font path exists and test-loads
    apiKey,       \* whether GOOGLE_FONTS_API_KEY is configured
    pc,           \* where each request thread stands
    key,          \* the (family, weight) key of the thread's request
    fonts_cache,  \* fonts_cache of the service instance the thread uses
    content,      \* the bytes the thread downloaded
    steps,        \* the chain steps the thread's resolution attempted
    won,          \* the first chain step that returned a font
    handle,       \* the font _get_font returned
    loadFailed,   \* _get_font could not load the cached path
    raised,       \* an exception escaped the resolver
    reqs,         \* requests started so far
    resolved,     \* keys some _prepare_fonts has resolved in this process
    late          \* the thread's request started after its key was resolved

fontVars == <<disk, sysfont, apiKey, pc, key, fonts_cache, content, steps, won,
              handle, loadFailed, raised, reqs, resolved, late>>

VARIABLES
    wtext,        \* the text (or word) handed to the wrapper, a sequence of characters
    max_width,    \* the width in pixels the lines must fit
    wop,          \* the wrapper function that has been applied
    wrapped       \* the lines (or parts) it returned

wrapVars == <<wtext, max_width, wop, wrapped>>

VARIABLES
    route,        \* the endpoint that received the request
    config,       \* the configuration handed to the generator
    gpc,          \* where the request stands
    slides_text,  \* generate_carousel: the segmented slide texts
    dims,         \* generate_carousel: (width, height)
    slides_data,  \* generate_carousel: the entries built so far
    result,       \* what generate_carousel returned
    error,        \* why the request was rejected or failed
    status,       \* the HTTP status of the response
    font_work,    \* _prepare_fonts has run for the request
    draws         \* number of calls of _create_slide_image for the request

genVars == <<route, config, gpc, slides_text, dims, slides_data, result, error,
             status, font_work, draws>>

VARIABLES
    color1,       \* _calculate_contrast_ratio: first colour, its six hex digits
    color2,       \* second colour
    cop,          \* whether the function has been applied
    contrast      \* the ratio it returned, as <<numerator, denominator>>

conVars == <<color1, color2, cop, contrast>>

VARIABLES
    dcfg,          \* _create_slide_image: the layout settings of the config
    parsed_content,\* the content blocks of the slide
    dpc,           \* where the drawing of the slide stands
    bi,            \* index of the block being drawn
    li,            \* _draw_text_block: index of the line being drawn
    wrapped_lines, \* _draw_text_block: the wrapped lines of the block
    y_position,    \* the vertical cursor of _create_slide_image
    current_y,     \* the vertical cursor inside _draw_text_block
    events         \* the draw.text calls and cursor advances so far

drawVars == <<dcfg, parsed_content, dpc, bi, li, wrapped_lines, y_position,
              current_y, events>>

VARIABLES
    now,              \* int(time.time() / 60), the current minute
    request_counts,   \* validate_rate_limit: per IP and minute, the count
    rpc,              \* where each thread stands in wrapper()
    client_ip,        \* wrapper: local of each thread
    current_time,     \* wrapper: local of each thread
    current_requests, \* wrapper: local of each thread
    passed,           \* per IP and minute, calls of func let through
    calls             \* calls of wrapper() started so far

rateVars == <<now, request_counts, rpc, client_ip, current_time,
              current_requests, passed, calls>>

VARIABLES
    family,       \* _get_google_font: the font family, a sequence of characters
    path_built,   \* the components of the path it checks and writes
    pop           \* whether the path has been built

pathVars == <<family, path_built, pop>>

VARIABLES
    cache_files,  \* the directory FONTS_CACHE_DIR: missing, empty or with files
    cleared       \* FontCacheResource.delete has answered with success

evictVars == <<cache_files, cleared>>

\* what the actions of one part of the model leave unchanged
notText == <<fontVars, wrapVars, genVars, conVars, drawVars, rateVars, pathVars, evictVars>>
notFont == <<textVars, wrapVars, genVars, conVars, drawVars, rateVars, pathVars, evictVars>>
notWrap == <<textVars, fontVars, genVars, conVars, drawVars, rateVars, pathVars, evictVars>>
notGen == <<op, slides, blocks, fontVars, wrapVars, conVars, drawVars, rateVars, pathVars,
            evictVars>>
notCon == <<textVars, fontVars, wrapVars, genVars, drawVars, rateVars, pathVars, evictVars>>
notDraw == <<textVars, fontVars, wrapVars, genVars, conVars, rateVars, pathVars, evictVars>>
notRate == <<textVars, fontVars, wrapVars, genVars, conVars, drawVars, pathVars, evictVars>>
notPath == <<textVars, fontVars, wrapVars, genVars, conVars, drawVars, rateVars, evictVars>>
notEvict == <<textVars, fontVars, wrapVars, genVars, conVars, drawVars, rateVars, pathVars>>

(***************************************************************************)
(* Bounds of the explored inputs.                                          *)
(***************************************************************************)
MaxAtoms == 5
MaxRequests == 2
MaxChars == 5
MaxParts == 22
MaxBlocks == 2
MaxCalls == 3
MaxMinute == 2
MaxFamilyLen == 4

(***************************************************************************)
(* Program constants.                                                      *)
(***************************************************************************)
SepLen == 8
AutoSplitThreshold == 1000
max_chars_per_slide == 800
TitleMaxLen == 50
MAX_SLIDES == 20
MAX_TEXT_LENGTH == 10000
SchemaMaxLen == 10000
NoValue == 0

Atom(k, n) == [k |-> k, n |-> n]

SP == Atom("sp", 1)
NL == Atom("nl", 1)
PB == Atom("pb", 2)
SEP == Atom("sep", SepLen)
STAR == Atom("star", 1)
HASH == Atom("hash", 1)

IsWs(a) == a.k \in {"sp", "nl", "pb"}

\* len(s)
RECURSIVE TextLen(_)
TextLen(s) == IF s = <<>> THEN 0 ELSE Head(s).n + TextLen(Tail(s))

\* s.lstrip()
RECURSIVE LStrip(_)
LStrip(s) == IF s = <<>> THEN s
             ELSE IF IsWs(Head(s)) THEN LStrip(Tail(s)) ELSE s

\* s.rstrip()
RECURSIVE RStrip(_)
RStrip(s) == IF s = <<>> THEN s
             ELSE IF IsWs(s[Len(s)]) THEN RStrip(SubSeq(s, 1, Len(s) - 1)) ELSE s

\* s.strip()
Strip(s) == RStrip(LStrip(s))

\* s.split(tok) for a token that is one atom kind: Len = occurrences + 1
RECURSIVE SplitAcc(_, _, _, _)
SplitAcc(s, kind, cur, acc) ==
    IF s = <<>> THEN Append(acc, cur)
    ELSE IF Head(s).k = kind
         THEN SplitAcc(Tail(s), kind, <<>>, Append(acc, cur))
         ELSE SplitAcc(Tail(s), kind, Append(cur, Head(s)), acc)

Split(s, kind) == SplitAcc(s, kind, <<>>, <<>>)

\* faulty variant: the parts are not trimmed
MapKeep(parts) == parts

\* [f(x) for x in seq]
MapStrip(parts) == [i \in 1..Len(parts) |-> Strip(parts[i])]

\* faulty variant: empty parts are kept
KeepAllParts(parts) == parts

\* [x for x in seq if x]
RECURSIVE NonEmpty(_)
NonEmpty(parts) ==
    IF parts = <<>> THEN <<>>
    ELSE IF Head(parts) = <<>> THEN NonEmpty(Tail(parts))
         ELSE <<Head(parts)>> \o NonEmpty(Tail(parts))

(***************************************************************************)
(* _auto_split_text: the loop over the paragraphs.  st is the pair of the  *)
(* slides flushed so far and current_slide.                                *)
(***************************************************************************)
JoinedLenIgnoringBreak(current_slide, paragraph) ==
    TextLen(current_slide) + TextLen(paragraph)

\* len(current_slide + paragraph)
FitLen(current_slide, paragraph) == JoinedLenIgnoringBreak(current_slide, paragraph)

\* faulty variant: the full chunk is not flushed when a new one is started
AutoSplitStepDropping(st, paragraph) ==
    IF TextLen(st.cur) + TextLen(paragraph) < max_chars_per_slide
    THEN [st EXCEPT !.cur = IF st.cur # <<>> THEN st.cur \o <<PB>> \o paragraph
                             ELSE paragraph]
    ELSE [out |-> st.out, cur |-> paragraph]

AutoSplitStep(st, paragraph) ==
    IF FitLen(st.cur, paragraph) < max_chars_per_slide
    THEN [st EXCEPT !.cur = IF st.cur # <<>> THEN st.cur \o <<PB>> \o paragraph
                             ELSE paragraph]
    ELSE [out |-> IF st.cur # <<>> THEN Append(st.out, Strip(st.cur)) ELSE st.out,
          cur |-> paragraph]

RECURSIVE AutoSplitLoop(_, _)
AutoSplitLoop(st, paragraphs) ==
    IF paragraphs = <<>> THEN st
    ELSE AutoSplitLoop(AutoSplitStep(st, Head(paragraphs)), Tail(paragraphs))

Paragraphs(t) == NonEmpty(MapStrip(Split(t, "pb")))

_auto_split_text(t) ==
    LET st == AutoSplitLoop([out |-> <<>>, cur |-> <<>>], Paragraphs(t))
    IN  IF st.cur # <<>> THEN Append(st.out, Strip(st.cur)) ELSE st.out

(***************************************************************************)
(* _parse_slides                                                           *)
(***************************************************************************)
SeparatorParts(t) == NonEmpty(MapStrip(Split(t, "sep")))

\* faulty variant: a long text is never split at its paragraphs
NoAutoSplit(t) == NonEmpty(MapStrip(Split(t, "sep")))

_parse_slides(t) ==
    LET parts == SeparatorParts(t)
    IN  IF Len(parts) = 1 /\ TextLen(t) > AutoSplitThreshold
        THEN _auto_split_text(t)
        ELSE parts

(***************************************************************************)
(* _parse_slide_content                                                    *)
(***************************************************************************)
\* text.split('\n'): a pb atom is two newlines with an empty line between
RECURSIVE SplitLinesAcc(_, _, _)
SplitLinesAcc(s, cur, acc) ==
    IF s = <<>> THEN Append(acc, cur)
    ELSE IF Head(s).k = "nl"
         THEN SplitLinesAcc(Tail(s), <<>>, Append(acc, cur))
         ELSE IF Head(s).k = "pb"
              THEN SplitLinesAcc(Tail(s), <<>>, Append(Append(acc, cur), <<>>))
              ELSE SplitLinesAcc(Tail(s), Append(cur, Head(s)), acc)

SplitLines(s) == SplitLinesAcc(s, <<>>, <<>>)

\* line.startswith('**') and line.endswith('**')
StartsWithStars(line) == Len(line) >= 2 /\ line[1].k = "star" /\ line[2].k = "star"
EndsWithStars(line) ==
    Len(line) >= 2 /\ line[Len(line)].k = "star" /\ line[Len(line) - 1].k = "star"

\* line[2:-2]
StripMarkers(line) == IF Len(line) < 4 THEN <<>> ELSE SubSeq(line, 3, Len(line) - 2)

\* line.startswith('#')
StartsWithHash(line) == Len(line) >= 1 /\ line[1].k = "hash"

\* line.lstrip('#')
RECURSIVE LStripHash(_)
LStripHash(s) == IF s = <<>> THEN s
                 ELSE IF Head(s).k = "hash" THEN LStripHash(Tail(s)) ELSE s

\* line.isupper(): some cased character, and no lower-case one
IsUpper(line) == /\ \E i \in 1..Len(line) : line[i].k = "up"
                 /\ \A i \in 1..Len(line) : line[i].k # "lo"

IsShortUpper(line) == IsUpper(line) /\ TextLen(line) < TitleMaxLen

\* faulty variant: the upper-case rule is tried before the '#' rule
ClassifyLineCapsFirst(line) ==
    IF StartsWithStars(line) /\ EndsWithStars(line)
    THEN [type |-> "title", text |-> Strip(StripMarkers(line))]
    ELSE IF IsShortUpper(line)
         THEN [type |-> "title", text |-> line]
         ELSE IF StartsWithHash(line)
              THEN [type |-> "title", text |-> Strip(LStripHash(line))]
              ELSE [type |-> "text", text |-> line]

ClassifyLine(line) ==
    IF StartsWithStars(line) /\ EndsWithStars(line)
    THEN [type |-> "title", text |-> Strip(StripMarkers(line))]
    ELSE IF StartsWithHash(line)
         THEN [type |-> "title", text |-> Strip(LStripHash(line))]
         ELSE IF IsShortUpper(line)
              THEN [type |-> "title", text |-> line]
              ELSE [type |-> "text", text |-> line]

RECURSIVE ContentLoop(_)
ContentLoop(lines) ==
    IF lines = <<>> THEN <<>>
    ELSE LET line == Strip(Head(lines))
         IN  IF line = <<>> THEN ContentLoop(Tail(lines))
             ELSE <<ClassifyLine(line)>> \o ContentLoop(Tail(lines))

_parse_slide_content(t) == ContentLoop(SplitLines(t))

(***************************************************************************)
(* Font resolution: _prepare_fonts, _get_google_font,                      *)
(* _get_font_download_url, _get_fallback_font_path and _get_font, run by   *)
(* request threads (app.run(threaded=True)).  A font path is modelled by   *)
(* its kind: "google" is fonts_dir/<family>-<weight>.ttf, "system" a       *)
(* system font path, "none" the empty string, "unset" a missing dict key.  *)
(* A font file is absent, partial (opened for writing, not yet written),   *)
(* complete, or corrupt (fully written bytes that are no font).            *)
(***************************************************************************)
Threads == {"t1", "t2"}
Keys == {"Inter-400", "Roboto-700"}

ChainRank(step) ==
    CASE step = "local" -> 1
      [] step = "metadata" -> 2
      [] step = "stylesheet" -> 3
      [] step = "system" -> 4
      [] step = "builtin" -> 5

Step(name, res) == [step |-> name, res |-> res]

\* self.fonts_cache = {}
EmptyCache == [k \in Keys |-> "unset"]

\* os.path.exists(font_path)
Exists(k) == disk[k] # "absent"

\* ImageFont.truetype(font_path, size) succeeds on a complete font file
Loads(k) == disk[k] = "complete"

\* _get_fallback_font_path()
FallbackPath == IF sysfont = "ok" THEN "system" ELSE "none"

\* faulty variant: the download error propagates to the caller
Reraise == [pc |-> "done", raised |-> TRUE]

\* except Exception in _get_google_font: log, return None
ExceptGoogleFont == [pc |-> "fallback", raised |-> FALSE]

\* except Exception in _get_font_download_url: log, return None
ExceptDownloadUrl == [pc |-> "fallback", raised |-> FALSE]

\* faulty variant: a local cache hit does not return
NoReturnOnHit == IF apiKey THEN "metadata" ELSE "stylesheet"

\* if os.path.exists(font_path): return font_path
AfterLocalHit == "get_font"

\* if self.google_fonts_api_key: ... else the CSS API
AfterLocalMiss == IF apiKey THEN "metadata" ELSE "stylesheet"

\* faulty variant: the fallback path is not stored
CacheUntouched(cache, k, path) == cache

\* self.fonts_cache[font_key] = ...
CacheStore(cache, k, path) == [cache EXCEPT ![k] = path]

\* the chain step the thread attempted last
LastAttempt(t) == IF steps[t] = <<>> THEN "none" ELSE steps[t][Len(steps[t])].step

Goto(t, where) == pc' = [pc EXCEPT ![t] = where]

Attempt(t, name, res) == steps' = [steps EXCEPT ![t] = Append(@, Step(name, res))]

Caught(t, handler) ==
    /\ pc' = [pc EXCEPT ![t] = handler.pc]
    /\ raised' = [raised EXCEPT ![t] = handler.raised]

\* a resource is instantiated for the request and builds its own service
HandleRequest(t, k) ==
    /\ pc[t] \in {"idle", "done"}
    /\ reqs < MaxRequests
    /\ reqs' = reqs + 1
    /\ fonts_cache' = [fonts_cache EXCEPT ![t] = EmptyCache]
    /\ key' = [key EXCEPT ![t] = k]
    /\ late' = [late EXCEPT ![t] = k \in resolved]
    /\ steps' = [steps EXCEPT ![t] = <<>>]
    /\ won' = [won EXCEPT ![t] = "none"]
    /\ handle' = [handle EXCEPT ![t] = "none"]
    /\ loadFailed' = [loadFailed EXCEPT ![t] = FALSE]
    /\ content' = [content EXCEPT ![t] = "none"]
    /\ Goto(t, "prepare")
    /\ UNCHANGED <<disk, sysfont, apiKey, raised, resolved, notFont>>

\* generate_carousel is called again on the same service instance
CallAgain(t, k) ==
    /\ pc[t] = "done"
    /\ reqs < MaxRequests
    /\ reqs' = reqs + 1
    /\ key' = [key EXCEPT ![t] = k]
    /\ late' = [late EXCEPT ![t] = k \in resolved]
    /\ steps' = [steps EXCEPT ![t] = <<>>]
    /\ won' = [won EXCEPT ![t] = "none"]
    /\ handle' = [handle EXCEPT ![t] = "none"]
    /\ loadFailed' = [loadFailed EXCEPT ![t] = FALSE]
    /\ content' = [content EXCEPT ![t] = "none"]
    /\ Goto(t, "prepare")
    /\ UNCHANGED <<disk, sysfont, apiKey, fonts_cache, raised, resolved, notFont>>

\* _prepare_fonts: if font_key not in self.fonts_cache
PrepareFonts(t) ==
    /\ pc[t] = "prepare"
    /\ Goto(t, IF fonts_cache[t][key[t]] = "unset" THEN "exists" ELSE "get_font")
    /\ UNCHANGED <<disk, sysfont, apiKey, key, fonts_cache, content, steps, won,
                   handle, loadFailed, raised, reqs, resolved, late, notFont>>

\* _get_google_font: the local cache file check
LocalCacheCheck(t) ==
    /\ pc[t] = "exists"
    /\ IF Exists(key[t])
       THEN /\ Attempt(t, "local", disk[key[t]])
            /\ Goto(t, AfterLocalHit)
            /\ won' = [won EXCEPT ![t] = "local"]
            /\ fonts_cache' = [fonts_cache EXCEPT ![t] = CacheStore(@, key[t], "google")]
            /\ resolved' = resolved \cup {key[t]}
       ELSE /\ Attempt(t, "local", "miss")
            /\ Goto(t, AfterLocalMiss)
            /\ UNCHANGED <<won, fonts_cache, resolved>>
    /\ UNCHANGED <<disk, sysfont, apiKey, key, content, handle, loadFailed, raised,
                   reqs, late, notFont>>

\* _get_font_download_url: the webfonts metadata API
MetadataLookup(t) ==
    /\ pc[t] = "metadata"
    /\ \E res \in {"url", "nomatch", "error"} :
          /\ Attempt(t, "metadata", res)
          /\ CASE res = "url" -> Goto(t, "download") /\ UNCHANGED raised
               [] res = "nomatch" -> Goto(t, "stylesheet") /\ UNCHANGED raised
               [] res = "error" -> Caught(t, ExceptDownloadUrl)
    /\ UNCHANGED <<disk, sysfont, apiKey, key, fonts_cache, content, won, handle,
                   loadFailed, reqs, resolved, late, notFont>>

\* _get_font_download_url: the CSS API and the url(...) pattern
StylesheetScrape(t) ==
    /\ pc[t] = "stylesheet"
    /\ \E res \in {"url", "nomatch", "error"} :
          /\ Attempt(t, "stylesheet", res)
          /\ CASE res = "url" -> Goto(t, "download") /\ UNCHANGED raised
               [] res = "nomatch" -> Goto(t, "fallback") /\ UNCHANGED raised
               [] res = "error" -> Caught(t, ExceptDownloadUrl)
    /\ UNCHANGED <<disk, sysfont, apiKey, key, fonts_cache, content, won, handle,
                   loadFailed, reqs, resolved, late, notFont>>

\* _get_google_font: requests.get(download_url); raise_for_status()
Download(t) ==
    /\ pc[t] = "download"
    /\ \E res \in {"font", "garbage", "error"} :
          IF res = "error"
          THEN Caught(t, ExceptGoogleFont) /\ UNCHANGED content
          ELSE /\ content' = [content EXCEPT ![t] = res]
               /\ Goto(t, "open")
               /\ UNCHANGED raised
    /\ UNCHANGED <<disk, sysfont, apiKey, key, fonts_cache, steps, won, handle,
                   loadFailed, reqs, resolved, late, notFont>>

\* _get_google_font: open(font_path, 'wb') truncates the file
OpenFile(t) ==
    /\ pc[t] = "open"
    /\ \E ok \in BOOLEAN :
          IF ok
          THEN /\ disk' = [disk EXCEPT ![key[t]] = "partial"]
               /\ Goto(t, "write")
               /\ UNCHANGED raised
          ELSE Caught(t, ExceptGoogleFont) /\ UNCHANGED disk
    /\ UNCHANGED <<sysfont, apiKey, key, fonts_cache, content, steps, won, handle,
                   loadFailed, reqs, resolved, late, notFont>>

\* _get_google_font: f.write(response.content), close, return font_path
WriteFile(t) ==
    /\ pc[t] = "write"
    /\ \E ok \in BOOLEAN :
          IF ok
          THEN /\ disk' = [disk EXCEPT ![key[t]] =
                              IF content[t] = "font" THEN "complete" ELSE "corrupt"]
               /\ won' = [won EXCEPT ![t] = LastAttempt(t)]
               /\ fonts_cache' = [fonts_cache EXCEPT ![t] = CacheStore(@, key[t], "google")]
               /\ resolved' = resolved \cup {key[t]}
               /\ Goto(t, "get_font")
               /\ UNCHANGED raised
          ELSE /\ Caught(t, ExceptGoogleFont)
               /\ UNCHANGED <<disk, won, fonts_cache, resolved>>
    /\ UNCHANGED <<sysfont, apiKey, key, content, steps, handle, loadFailed, reqs,
                   late, notFont>>

\* _prepare_fonts: self.fonts_cache[font_key] = self._get_fallback_font_path()
SystemFallback(t) ==
    /\ pc[t] = "fallback"
    /\ Attempt(t, "system", FallbackPath)
    /\ won' = [won EXCEPT ![t] = IF FallbackPath = "system" THEN "system" ELSE "none"]
    /\ fonts_cache' = [fonts_cache EXCEPT ![t] = CacheStore(@, key[t], FallbackPath)]
    /\ resolved' = resolved \cup {key[t]}
    /\ Goto(t, "get_font")
    /\ UNCHANGED <<disk, sysfont, apiKey, key, content, handle, loadFailed, raised,
                   reqs, late, notFont>>

\* ImageFont.truetype(fallback_path, size): the path was test-loaded
SystemLoads == sysfont = "ok"

\* _get_font: the cached path, else the system font, else load_default()
GetFont(t) ==
    /\ pc[t] = "get_font"
    /\ LET font_path == fonts_cache[t][key[t]]
           cachedOk ==
               \/ font_path = "google" /\ Exists(key[t]) /\ Loads(key[t])
               \/ font_path = "system" /\ SystemLoads
           viaSystem == IF LastAttempt(t) = "system" THEN steps[t]
                        ELSE Append(steps[t], Step("system", FallbackPath))
       IN  IF cachedOk
           THEN /\ handle' = [handle EXCEPT ![t] = font_path]
                /\ UNCHANGED <<steps, loadFailed>>
           ELSE /\ loadFailed' = [loadFailed EXCEPT ![t] = font_path \in {"google", "system"}]
                /\ IF FallbackPath = "system" /\ SystemLoads
                   THEN /\ handle' = [handle EXCEPT ![t] = "system"]
                        /\ steps' = [steps EXCEPT ![t] = viaSystem]
                   ELSE /\ handle' = [handle EXCEPT ![t] = "builtin"]
                        /\ steps' = [steps EXCEPT ![t] =
                                        Append(viaSystem, Step("builtin", "ok"))]
    /\ Goto(t, "done")
    /\ UNCHANGED <<disk, sysfont, apiKey, key, fonts_cache, content, won, raised,
                   reqs, resolved, late, notFont>>

\* no font activity: the state of the font variables in the text specifications
FontQuiet ==
    /\ disk = [k \in Keys |-> "absent"]
    /\ sysfont = "ok"
    /\ apiKey = FALSE
    /\ pc = [t \in Threads |-> "idle"]
    /\ key = [t \in Threads |-> "Inter-400"]
    /\ fonts_cache = [t \in Threads |-> EmptyCache]
    /\ content = [t \in Threads |-> "none"]
    /\ steps = [t \in Threads |-> <<>>]
    /\ won = [t \in Threads |-> "none"]
    /\ handle = [t \in Threads |-> "none"]
    /\ loadFailed = [t \in Threads |-> FALSE]
    /\ raised = [t \in Threads |-> FALSE]
    /\ reqs = 0
    /\ resolved = {}
    /\ late = [t \in Threads |-> FALSE]

TextQuiet ==
    /\ text = <<>>
    /\ op = "input"
    /\ slides = <<>>
    /\ blocks = <<>>

\* no wrapping: the state of the wrapper variables in the other specifications
WrapQuiet ==
    /\ wtext = <<>>
    /\ max_width = 0
    /\ wop = "input"
    /\ wrapped = <<>>

\* no request: the state of the request variables in the other specifications
GenQuiet ==
    /\ route = "none"
    /\ config = [custom_width |-> NoValue, custom_height |-> NoValue,
                 platform |-> "instagram_post", corner_radius |-> 0]
    /\ gpc = "idle"
    /\ slides_text = <<>>
    /\ dims = <<0, 0>>
    /\ slides_data = <<>>
    /\ result = <<>>
    /\ error = "none"
    /\ status = 0
    /\ font_work = FALSE
    /\ draws = 0

\* no contrast computed: the state of the contrast variables elsewhere
ConQuiet ==
    /\ color1 = <<>>
    /\ color2 = <<>>
    /\ cop = "input"
    /\ contrast = <<0, 0>>

\* nothing is drawn: the state of the drawing variables elsewhere
DrawQuiet ==
    /\ dcfg = <<>>
    /\ parsed_content = <<>>
    /\ dpc = "idle"
    /\ bi = 0
    /\ li = 0
    /\ wrapped_lines = <<>>
    /\ y_position = 0
    /\ current_y = 0
    /\ events = <<>>

\* no call of a rate-limited function
RateQuiet ==
    /\ now = 0
    /\ request_counts = <<>>
    /\ rpc = <<>>
    /\ client_ip = <<>>
    /\ current_time = <<>>
    /\ current_requests = <<>>
    /\ passed = <<>>
    /\ calls = 0

\* no font path built
PathQuiet ==
    /\ family = <<>>
    /\ path_built = <<>>
    /\ pop = "input"

\* the font cache is not cleared
EvictQuiet ==
    /\ cache_files = "missing"
    /\ cleared = FALSE

\* process start: the fonts directory holds some complete files or none
FontInit ==
    /\ disk \in [Keys -> {"absent", "complete"}]
    /\ sysfont \in {"ok", "none"}
    /\ apiKey \in BOOLEAN
    /\ pc = [t \in Threads |-> "idle"]
    /\ key = [t \in Threads |-> "Inter-400"]
    /\ fonts_cache = [t \in Threads |-> EmptyCache]
    /\ content = [t \in Threads |-> "none"]
    /\ steps = [t \in Threads |-> <<>>]
    /\ won = [t \in Threads |-> "none"]
    /\ handle = [t \in Threads |-> "none"]
    /\ loadFailed = [t \in Threads |-> FALSE]
    /\ raised = [t \in Threads |-> FALSE]
    /\ reqs = 0
    /\ resolved = {}
    /\ late = [t \in Threads |-> FALSE]
    /\ TextQuiet
    /\ WrapQuiet
    /\ GenQuiet
    /\ ConQuiet
    /\ DrawQuiet /\ RateQuiet /\ PathQuiet /\ EvictQuiet

(***************************************************************************)
(* Input texts.                                                            *)
(***************************************************************************)
SegAtoms == {SP, PB, SEP, Atom("w", 1), Atom("w", 399), Atom("w", 400), Atom("w", 800)}

ClsAtoms == {SP, NL, STAR, HASH, Atom("up", 1), Atom("up", 48), Atom("lo", 1)}

\* a run of newlines is written pb* nl?
Canonical(s) ==
    \A i \in 1..(Len(s) - 1) : s[i].k = "nl" => s[i + 1].k \notin {"nl", "pb"}

TextsOver(atoms) ==
    {s \in UNION {[1..n -> atoms] : n \in 0..MaxAtoms} : Canonical(s)}

(***************************************************************************)
(* Segmentation: _parse_slides and _auto_split_text applied to a text.     *)
(***************************************************************************)
SegInit ==
    /\ text \in TextsOver(SegAtoms)
    /\ op = "input"
    /\ slides = <<>>
    /\ blocks = <<>>
    /\ FontQuiet
    /\ WrapQuiet
    /\ GenQuiet
    /\ ConQuiet
    /\ DrawQuiet /\ RateQuiet /\ PathQuiet /\ EvictQuiet

ParseSlides ==
    /\ op = "input"
    /\ slides' = _parse_slides(text)
    /\ op' = "parse_slides"
    /\ UNCHANGED <<text, blocks, notText>>

AutoSplitText ==
    /\ op = "input"
    /\ slides' = _auto_split_text(text)
    /\ op' = "auto_split"
    /\ UNCHANGED <<text, blocks, notText>>

(***************************************************************************)
(* Classification: _parse_slide_content applied to a slide text.           *)
(***************************************************************************)
ClsInit ==
    /\ text \in TextsOver(ClsAtoms)
    /\ op = "input"
    /\ slides = <<>>
    /\ blocks = <<>>
    /\ FontQuiet
    /\ WrapQuiet
    /\ GenQuiet
    /\ ConQuiet
    /\ DrawQuiet /\ RateQuiet /\ PathQuiet /\ EvictQuiet

ParseSlideContent ==
    /\ op = "input"
    /\ blocks' = _parse_slide_content(text)
    /\ op' = "parse_content"
    /\ UNCHANGED <<text, slides, notText>>

(***************************************************************************)
(* Line wrapping: _wrap_text and _break_long_word.  A text is a sequence   *)
(* of characters; font.getbbox measures a string as the sum of the         *)
(* advance widths of its characters.                                       *)
(***************************************************************************)
Chars == {" ", "i", "m", "W"}

CharWidth(c) == CASE c = " " -> 2 [] c = "i" -> 2 [] c = "m" -> 5 [] c = "W" -> 12

MaxWidths == {4, 10}

\* bbox = font.getbbox(s); bbox[2] - bbox[0]
RECURSIVE getbbox_width(_)
getbbox_width(s) == IF s = <<>> THEN 0 ELSE CharWidth(Head(s)) + getbbox_width(Tail(s))

\* faulty variant: every test line is taken to fit
AlwaysFits(width, limit) == TRUE

\* faulty variant: a line of exactly max_width is taken not to fit
StrictlyFits(width, limit) == width < limit

\* text_width <= max_width
Fits(width, limit) == width <= limit

\* text.split(): the maximal runs of non-space characters
RECURSIVE SplitWordsAcc(_, _, _)
SplitWordsAcc(s, cur, acc) ==
    IF s = <<>> THEN (IF cur = <<>> THEN acc ELSE Append(acc, cur))
    ELSE IF Head(s) = " "
         THEN SplitWordsAcc(Tail(s), <<>>, IF cur = <<>> THEN acc ELSE Append(acc, cur))
         ELSE SplitWordsAcc(Tail(s), Append(cur, Head(s)), acc)

SplitWords(s) == SplitWordsAcc(s, <<>>, <<>>)

\* faulty variant: the character that does not fit is not carried over
BreakStepLosing(st, char, limit) ==
    LET test_part == Append(st.current_part, char)
    IN  IF getbbox_width(test_part) <= limit
        THEN [parts |-> st.parts, current_part |-> test_part]
        ELSE [parts |-> IF st.current_part # <<>>
                        THEN Append(st.parts, st.current_part) ELSE st.parts,
              current_part |-> <<>>]

\* the loop of _break_long_word over the characters; st = [parts, current_part]
BreakStep(st, char, limit) ==
    LET test_part == Append(st.current_part, char)
    IN  IF Fits(getbbox_width(test_part), limit)
        THEN [parts |-> st.parts, current_part |-> test_part]
        ELSE [parts |-> IF st.current_part # <<>>
                        THEN Append(st.parts, st.current_part) ELSE st.parts,
              current_part |-> <<char>>]

RECURSIVE BreakLoop(_, _, _)
BreakLoop(st, word, limit) ==
    IF word = <<>> THEN st ELSE BreakLoop(BreakStep(st, Head(word), limit), Tail(word), limit)

_break_long_word(word, limit) ==
    LET st == BreakLoop([parts |-> <<>>, current_part |-> <<>>], word, limit)
    IN  IF st.current_part # <<>> THEN Append(st.parts, st.current_part) ELSE st.parts

\* f"{current_line} {word}".strip()
TestLine(current_line, word) ==
    IF current_line = <<>> THEN word ELSE current_line \o <<" ">> \o word

\* the loop of _wrap_text over the words; st = [lines, current_line], and
\* broken tells of each line whether _break_long_word produced it
WrapStep(st, word, limit) ==
    LET test_line == TestLine(st.current_line, word)
        flushed == IF st.current_line # <<>>
                   THEN Append(st.lines, st.current_line) ELSE st.lines
        flushedBroken == IF st.current_line # <<>>
                         THEN Append(st.broken, FALSE) ELSE st.broken
        parts == _break_long_word(word, limit)
    IN  IF Fits(getbbox_width(test_line), limit)
        THEN [lines |-> st.lines, broken |-> st.broken, current_line |-> test_line]
        ELSE IF getbbox_width(word) > limit
             THEN [lines |-> flushed \o parts,
                   broken |-> flushedBroken \o [i \in 1..Len(parts) |-> TRUE],
                   current_line |-> <<>>]
             ELSE [lines |-> flushed, broken |-> flushedBroken, current_line |-> word]

RECURSIVE WrapLoop(_, _, _)
WrapLoop(st, words, limit) ==
    IF words = <<>> THEN st ELSE WrapLoop(WrapStep(st, Head(words), limit), Tail(words), limit)

WrapRun(t, limit) ==
    WrapLoop([lines |-> <<>>, broken |-> <<>>, current_line |-> <<>>], SplitWords(t), limit)

_wrap_text(t, limit) ==
    LET st == WrapRun(t, limit)
    IN  IF st.current_line # <<>> THEN Append(st.lines, st.current_line) ELSE st.lines

\* for each returned line, whether it is a part of a character-broken word
BrokenFlags(t, limit) ==
    LET st == WrapRun(t, limit)
    IN  IF st.current_line # <<>> THEN Append(st.broken, FALSE) ELSE st.broken

WrapInit ==
    /\ wtext \in UNION {[1..n -> Chars] : n \in 0..MaxChars}
    /\ max_width \in MaxWidths
    /\ wop = "input"
    /\ wrapped = <<>>
    /\ TextQuiet
    /\ FontQuiet
    /\ GenQuiet
    /\ ConQuiet
    /\ DrawQuiet /\ RateQuiet /\ PathQuiet /\ EvictQuiet

WrapText ==
    /\ wop = "input"
    /\ wrapped' = _wrap_text(wtext, max_width)
    /\ wop' = "wrap_text"
    /\ UNCHANGED <<wtext, max_width, notWrap>>

\* _break_long_word is handed one word
BreakLongWord ==
    /\ wop = "input"
    /\ wtext # <<>>
    /\ \A i \in 1..Len(wtext) : wtext[i] # " "
    /\ wrapped' = _break_long_word(wtext, max_width)
    /\ wop' = "break_long_word"
    /\ UNCHANGED <<wtext, max_width, notWrap>>

(***************************************************************************)
(* A carousel request: the route's validation (routes/carousel.py),        *)
(* generate_carousel and the response.                                     *)
(***************************************************************************)
PLATFORM_SPECS ==
    [instagram_post  |-> [width |-> 1080, height |-> 1080],
     instagram_story |-> [width |-> 1080, height |-> 1920],
     linkedin        |-> [width |-> 1080, height |-> 1080],
     tiktok          |-> [width |-> 1080, height |-> 1350],
     twitter         |-> [width |-> 1024, height |-> 512],
     facebook        |-> [width |-> 1200, height |-> 630]]

DEFAULT_IMAGE_WIDTH == 1080
DEFAULT_IMAGE_HEIGHT == 1080

\* faulty variant: the custom pair is ignored
NeverCustom(cfg) == FALSE

\* config.get('custom_width') and config.get('custom_height')
HasCustom(cfg) == cfg.custom_width # NoValue /\ cfg.custom_height # NoValue

\* config.get('platform', 'instagram_post')
PlatformOf(cfg) == IF cfg.platform = "missing" THEN "instagram_post" ELSE cfg.platform

_get_image_dimensions(cfg) ==
    IF HasCustom(cfg)
    THEN <<cfg.custom_width, cfg.custom_height>>
    ELSE IF PlatformOf(cfg) \in DOMAIN PLATFORM_SPECS
         THEN <<PLATFORM_SPECS[PlatformOf(cfg)].width, PLATFORM_SPECS[PlatformOf(cfg)].height>>
         ELSE <<DEFAULT_IMAGE_WIDTH, DEFAULT_IMAGE_HEIGHT>>

\* the mode of the image _create_slide_image saves: Image.new('RGB', ...), and
\* putalpha in _apply_corner_radius turns it into RGBA
PixelMode(cfg) == IF cfg.corner_radius > 0 THEN "RGBA" ELSE "RGB"

\* CarouselRequestSchema: Length(min=1, max=10000) and validate_text_content
SchemaAccepts(t) ==
    /\ TextLen(t) >= 1
    /\ TextLen(t) <= SchemaMaxLen
    /\ \E i \in 1..Len(t) : ~IsWs(t[i])

\* faulty variant: the fonts are prepared before the slide count is checked
FontsBeforeCheck == <<"parse", "fonts", "check", "dimensions", "slides", "return">>

\* the order of the steps of generate_carousel
GenerateSteps == <<"parse", "check", "dimensions", "fonts", "slides", "return">>

StepAfter(name) ==
    LET i == CHOOSE j \in 1..Len(GenerateSteps) : GenerateSteps[j] = name
    IN  IF i = Len(GenerateSteps) THEN "returned" ELSE GenerateSteps[i + 1]

\* faulty variant: the slide count is not limited
NoLimit(n) == FALSE

\* len(slides_text) > current_app.config.get('MAX_SLIDES', 20)
TooManySlides(n) == n > MAX_SLIDES

\* faulty variant: slides are numbered from 0
ZeroBased(i) == i

\* 'slide_number': i + 1
SlideNumber(i) == i + 1

\* faulty variant: a failed draw ends the loop and the entries so far are returned
SwallowDrawError == "return"

\* except Exception as e: ...; raise
OnDrawError == "raised"

Reject(why, code) ==
    /\ error' = why
    /\ status' = code
    /\ gpc' = "responded"

RaiseError(why) ==
    /\ error' = why
    /\ gpc' = "raised"

\* post(): everything before the call of generate_carousel
Validate ==
    /\ gpc = "validate"
    /\ IF route = "generate" /\ ~SchemaAccepts(text)
         THEN Reject("validation_failed", 400)
       ELSE IF route = "generate" /\ TextLen(text) > MAX_TEXT_LENGTH
         THEN Reject("text_too_long", 400)
       ELSE gpc' = Head(GenerateSteps) /\ UNCHANGED <<error, status>>
    /\ UNCHANGED <<text, route, config, slides_text, dims, slides_data, result,
                   font_work, draws, notGen>>

\* slides_text = self._parse_slides(text, config)
GenParseSlides ==
    /\ gpc = "parse"
    /\ slides_text' = _parse_slides(text)
    /\ gpc' = StepAfter("parse")
    /\ UNCHANGED <<text, route, config, dims, slides_data, result, error, status,
                   font_work, draws, notGen>>

CheckSlides ==
    /\ gpc = "check"
    /\ IF slides_text = <<>> THEN RaiseError("no_slides")
       ELSE IF TooManySlides(Len(slides_text)) THEN RaiseError("too_many_slides")
       ELSE gpc' = StepAfter("check") /\ UNCHANGED error
    /\ UNCHANGED <<text, route, config, slides_text, dims, slides_data, result,
                   status, font_work, draws, notGen>>

GetImageDimensions ==
    /\ gpc = "dimensions"
    /\ dims' = _get_image_dimensions(config)
    /\ gpc' = StepAfter("dimensions")
    /\ UNCHANGED <<text, route, config, slides_text, slides_data, result, error,
                   status, font_work, draws, notGen>>

\* self._prepare_fonts(config): never raises
GenPrepareFonts ==
    /\ gpc = "fonts"
    /\ font_work' = TRUE
    /\ gpc' = StepAfter("fonts")
    /\ UNCHANGED <<text, route, config, slides_text, dims, slides_data, result,
                   error, status, draws, notGen>>

\* one turn of the loop over slides_text; the draw returns the bytes or raises
CreateSlide ==
    /\ gpc = "slides"
    /\ Len(slides_data) < Len(slides_text)
    /\ draws' = draws + 1
    /\ LET i == Len(slides_data)
       IN  \/ /\ slides_data' = Append(slides_data,
                                       [text |-> slides_text[i + 1],
                                        mode |-> PixelMode(config),
                                        width |-> dims[1],
                                        height |-> dims[2],
                                        slide_number |-> SlideNumber(i)])
              /\ gpc' = IF i + 1 = Len(slides_text) THEN StepAfter("slides") ELSE "slides"
              /\ UNCHANGED error
           \/ /\ error' = "draw_failed"
              /\ gpc' = OnDrawError
              /\ UNCHANGED slides_data
    /\ UNCHANGED <<text, route, config, slides_text, dims, result, status,
                   font_work, notGen>>

ReturnResult ==
    /\ gpc = "return"
    /\ result' = <<[total_slides |-> Len(slides_text),
                    slides |-> slides_data,
                    dimensions |-> dims]>>
    /\ gpc' = "returned"
    /\ UNCHANGED <<text, route, config, slides_text, dims, slides_data, error,
                   status, font_work, draws, notGen>>

\* post(): the response, or the except clause
Respond ==
    /\ gpc \in {"returned", "raised"}
    /\ status' = IF gpc = "returned" THEN 200 ELSE 500
    /\ gpc' = "responded"
    /\ UNCHANGED <<text, route, config, slides_text, dims, slides_data, result,
                   error, font_work, draws, notGen>>

\* n parts of different lengths with the separator between them
RECURSIVE PartsText(_)
PartsText(n) ==
    IF n = 0 THEN <<>>
    ELSE IF n = 1 THEN <<Atom("w", 1)>>
    ELSE PartsText(n - 1) \o <<SEP, Atom("w", n)>>

GenTexts ==
    {PartsText(n) : n \in 0..MaxParts}
        \cup {<<SP>>, <<SEP>>, <<Atom("w", MAX_TEXT_LENGTH + 1)>>,
              <<Atom("w", 400), PB, Atom("w", 700)>>}

GenConfigs ==
    [custom_width : {NoValue, 1200}, custom_height : {NoValue, 800},
     platform : {"instagram_story", "twitter"}, corner_radius : {0, 20}]

GenInit ==
    /\ text \in GenTexts
    /\ route \in {"generate", "from_text"}
    /\ config \in GenConfigs
    /\ gpc = "validate"
    /\ slides_text = <<>>
    /\ dims = <<0, 0>>
    /\ slides_data = <<>>
    /\ result = <<>>
    /\ error = "none"
    /\ status = 0
    /\ font_work = FALSE
    /\ draws = 0
    /\ op = "input"
    /\ slides = <<>>
    /\ blocks = <<>>
    /\ FontQuiet
    /\ WrapQuiet
    /\ ConQuiet
    /\ DrawQuiet /\ RateQuiet /\ PathQuiet /\ EvictQuiet

vars == <<textVars, fontVars, wrapVars, genVars, conVars, drawVars, rateVars,
          pathVars, evictVars>>

GenNext ==
    \/ Validate
    \/ GenParseSlides
    \/ CheckSlides
    \/ GetImageDimensions
    \/ GenPrepareFonts
    \/ CreateSlide
    \/ ReturnResult
    \/ Respond
GenSpec == GenInit /\ [][GenNext]_vars

(***************************************************************************)
(* _get_image_dimensions applied to a configuration: the custom sizes the  *)
(* schema admits (100..4000, or none) and the platforms it admits.         *)
(***************************************************************************)
DimConfigs ==
    [custom_width : {NoValue, 100, 1200, 4000},
     custom_height : {NoValue, 100, 800, 4000},
     platform : DOMAIN PLATFORM_SPECS \cup {"missing"},
     corner_radius : {0}]

DimInit ==
    /\ config \in DimConfigs
    /\ gpc = "call_dimensions"
    /\ route = "none"
    /\ slides_text = <<>>
    /\ dims = <<0, 0>>
    /\ slides_data = <<>>
    /\ result = <<>>
    /\ error = "none"
    /\ status = 0
    /\ font_work = FALSE
    /\ draws = 0
    /\ TextQuiet
    /\ FontQuiet
    /\ WrapQuiet
    /\ ConQuiet
    /\ DrawQuiet /\ RateQuiet /\ PathQuiet /\ EvictQuiet

CallGetImageDimensions ==
    /\ gpc = "call_dimensions"
    /\ dims' = _get_image_dimensions(config)
    /\ gpc' = "dimensions_returned"
    /\ UNCHANGED <<text, route, config, slides_text, slides_data, result, error,
                   status, font_work, draws, notGen>>

(***************************************************************************)
(* _calculate_contrast_ratio (utils/validators.py).  A colour "#rrggbb" is *)
(* the sequence of its six hex digits.  Linear channel values are kept in  *)
(* units of 1/10000 and luminances in units of 1/100000000; the ratio is   *)
(* the pair of the dividend and the divisor of the final division.         *)
(***************************************************************************)
HexPairs == {<<0, 0>>, <<0, 5>>, <<8, 0>>, <<15, 15>>}

Colours == {p \o q \o r : p \in HexPairs, q \in HexPairs, r \in HexPairs}

\* int(color[i:i+2], 16)
HexByte(color, i) == 16 * color[i] + color[i + 1]

\* ((x + 0.055) / 1.055) ** 2.4 for x = c / 255.0, for the channel values above
Gamma24(c) == CASE c = 128 -> 2159 [] c = 255 -> 10000

\* x / 12.92 if x <= 0.03928 else ((x + 0.055) / 1.055) ** 2.4, x = c / 255.0
Linearize(c) ==
    IF c * 100000 <= 3928 * 255
    THEN (c * 1000000) \div (255 * 1292)
    ELSE Gamma24(c)

\* 0.2126*r + 0.7152*g + 0.0722*b
luminance(color) ==
    2126 * Linearize(HexByte(color, 1)) + 7152 * Linearize(HexByte(color, 3))
        + 722 * Linearize(HexByte(color, 5))

\* faulty variant: the first luminance is always divided by the second
FirstOverSecond(l1, l2) == <<l1 + 5000000, l2 + 5000000>>

\* (max(l1, l2) + 0.05) / (min(l1, l2) + 0.05)
ContrastOf(l1, l2) ==
    <<(IF l1 >= l2 THEN l1 ELSE l2) + 5000000, (IF l1 >= l2 THEN l2 ELSE l1) + 5000000>>

_calculate_contrast_ratio(c1, c2) == ContrastOf(luminance(c1), luminance(c2))

ConInit ==
    /\ color1 \in Colours
    /\ color2 \in Colours
    /\ cop = "input"
    /\ contrast = <<0, 0>>
    /\ TextQuiet
    /\ FontQuiet
    /\ WrapQuiet
    /\ GenQuiet
    /\ DrawQuiet /\ RateQuiet /\ PathQuiet /\ EvictQuiet

CalculateContrastRatio ==
    /\ cop = "input"
    /\ contrast' = _calculate_contrast_ratio(color1, color2)
    /\ cop' = "contrast_ratio"
    /\ UNCHANGED <<color1, color2, notCon>>

ConNext == CalculateContrastRatio
ConSpec == ConInit /\ [][ConNext]_vars

(***************************************************************************)
(* Drawing one slide: the layout part of _create_slide_image and           *)
(* _draw_text_block.  Lengths are pixels; line_spacing is kept in tenths.  *)
(* events records every draw.text call and every advance of the cursor     *)
(* after a block.                                                          *)
(***************************************************************************)
\* line_bbox[3] - line_bbox[1] under the title font and the regular font
LineHeight(type) == IF type = "title" THEN 14 ELSE 11

\* int(line_height * line_spacing)
LineAdvance(line_height, line_spacing) == (line_height * line_spacing) \div 10

\* faulty variant: right alignment puts the origin at the right edge
LineXAtRightEdge(align, x, limit, line_width) ==
    CASE align = "center" -> x + ((limit - line_width) \div 2)
      [] align = "right" -> x + limit
      [] OTHER -> x

\* line_x by alignment
LineX(align, x, limit, line_width) ==
    CASE align = "center" -> x + ((limit - line_width) \div 2)
      [] align = "right" -> x + limit - line_width
      [] OTHER -> x

\* faulty variant: the same gap after every block
SameGap(type) == 20

\* y_position += 30 after a title, += 20 after a text block
BlockGap(type) == IF type = "title" THEN 30 ELSE 20

\* faulty variant: the logo is drawn whenever it is enabled
LogoWheneverEnabled(cfg) == cfg.add_logo_text

\* config.get('add_logo_text', False) and config.get('logo_text')
DrawsLogo(cfg) == cfg.add_logo_text /\ cfg.logo_text # ""

\* config.get('add_page_numbers', False)
DrawsPageNumbers(cfg) == cfg.add_page_numbers

StartBlock ==
    /\ dpc = "block"
    /\ bi <= Len(parsed_content)
    /\ wrapped_lines' = _wrap_text(parsed_content[bi].text, dcfg.content_width)
    /\ current_y' = y_position
    /\ li' = 1
    /\ dpc' = "lines"
    /\ UNCHANGED <<dcfg, parsed_content, bi, y_position, events, notDraw>>

DrawLine ==
    /\ dpc = "lines"
    /\ li <= Len(wrapped_lines)
    /\ LET line_width == getbbox_width(wrapped_lines[li])
           line_height == LineHeight(parsed_content[bi].type)
           line_x == LineX(dcfg.text_align, dcfg.padding, dcfg.content_width, line_width)
       IN  /\ events' = Append(events, [ev |-> "line", block |-> bi, x |-> line_x,
                                        y |-> current_y, w |-> line_width])
           /\ current_y' = current_y + LineAdvance(line_height, dcfg.line_spacing)
    /\ li' = li + 1
    /\ UNCHANGED <<dcfg, parsed_content, dpc, bi, wrapped_lines, y_position, notDraw>>

\* _draw_text_block returns current_y, and the gap is added
EndBlock ==
    /\ dpc = "lines"
    /\ li > Len(wrapped_lines)
    /\ y_position' = current_y + BlockGap(parsed_content[bi].type)
    /\ events' = Append(events, [ev |-> "gap", block |-> bi, y |-> current_y,
                                 to |-> current_y + BlockGap(parsed_content[bi].type)])
    /\ bi' = bi + 1
    /\ dpc' = IF bi + 1 > Len(parsed_content) THEN "page_numbers" ELSE "block"
    /\ UNCHANGED <<dcfg, parsed_content, li, wrapped_lines, current_y, notDraw>>

AddPageNumbers ==
    /\ dpc = "page_numbers"
    /\ events' = IF DrawsPageNumbers(dcfg)
                 THEN Append(events, [ev |-> "page",
                                      text |-> <<dcfg.slide_number, dcfg.total_slides>>])
                 ELSE events
    /\ dpc' = "logo_text"
    /\ UNCHANGED <<dcfg, parsed_content, bi, li, wrapped_lines, y_position, current_y,
                   notDraw>>

AddLogoText ==
    /\ dpc = "logo_text"
    /\ events' = IF DrawsLogo(dcfg)
                 THEN Append(events, [ev |-> "logo", text |-> dcfg.logo_text])
                 ELSE events
    /\ dpc' = "save"
    /\ UNCHANGED <<dcfg, parsed_content, bi, li, wrapped_lines, y_position, current_y,
                   notDraw>>

\* image.save(...)
SaveImage ==
    /\ dpc = "save"
    /\ dpc' = "saved"
    /\ UNCHANGED <<dcfg, parsed_content, bi, li, wrapped_lines, y_position, current_y,
                   events, notDraw>>

DrawTexts == {<<>>, <<"i", " ", "m">>, <<"m", " ", "m", " ", "i">>}

\* a title can have empty text, a text block cannot
DrawBlocks ==
    {b \in [type : {"title", "text"}, text : DrawTexts] : b.type = "text" => b.text # <<>>}

DrawConfigs ==
    [padding : {0, 80}, content_width : MaxWidths, text_align : {"left", "center", "right"},
     line_spacing : {5, 12}, add_page_numbers : BOOLEAN, add_logo_text : BOOLEAN,
     logo_text : {"", "brand"}, slide_number : {1}, total_slides : {2}]

DrawInit ==
    /\ dcfg \in DrawConfigs
    /\ parsed_content \in UNION {[1..n -> DrawBlocks] : n \in 1..MaxBlocks}
    /\ dpc = "block"
    /\ bi = 1
    /\ li = 0
    /\ wrapped_lines = <<>>
    /\ y_position = dcfg.padding
    /\ current_y = 0
    /\ events = <<>>
    /\ TextQuiet
    /\ FontQuiet
    /\ WrapQuiet
    /\ GenQuiet
    /\ ConQuiet
    /\ RateQuiet /\ PathQuiet /\ EvictQuiet

DrawNext ==
    \/ StartBlock
    \/ DrawLine
    \/ EndBlock
    \/ AddPageNumbers
    \/ AddLogoText
    \/ SaveImage
DrawSpec == DrawInit /\ [][DrawNext]_vars

(***************************************************************************)
(* validate_rate_limit (utils/validators.py): wrapper() run by the request *)
(* threads of the threaded server.  request_counts is shared by the        *)
(* threads; a count of 0 stands for a missing entry.                       *)
(***************************************************************************)
IPs == {"ip1", "ip2"}
Minutes == 0..MaxMinute

\* the argument of the decorator
requests_per_minute == 2

NoCounts == [ip \in IPs |-> [m \in Minutes |-> 0]]

\* client_ip and current_time are taken, old entries are dropped
RateEnter(t, ip) ==
    /\ rpc[t] = "idle"
    /\ calls < MaxCalls
    /\ calls' = calls + 1
    /\ client_ip' = [client_ip EXCEPT ![t] = ip]
    /\ current_time' = [current_time EXCEPT ![t] = now]
    /\ request_counts' = [request_counts EXCEPT ![ip] =
                             [m \in Minutes |-> IF m >= now - 1 THEN @[m] ELSE 0]]
    /\ rpc' = [rpc EXCEPT ![t] = "count"]
    /\ UNCHANGED <<now, current_requests, passed, notRate>>

\* current_requests is read and compared; ValidationError when the limit is reached
RateCount(t) ==
    /\ rpc[t] = "count"
    /\ LET n == request_counts[client_ip[t]][current_time[t]]
       IN  /\ current_requests' = [current_requests EXCEPT ![t] = n]
           /\ rpc' = [rpc EXCEPT ![t] = IF n >= requests_per_minute
                                         THEN "idle" ELSE "increment"]
    /\ UNCHANGED <<now, request_counts, client_ip, current_time, passed, calls, notRate>>

\* the counter is written and func is called
RateIncrement(t) ==
    /\ rpc[t] = "increment"
    /\ request_counts' = [request_counts EXCEPT
                             ![client_ip[t]][current_time[t]] = current_requests[t] + 1]
    /\ passed' = [passed EXCEPT ![client_ip[t]][current_time[t]] = @ + 1]
    /\ rpc' = [rpc EXCEPT ![t] = "idle"]
    /\ UNCHANGED <<now, client_ip, current_time, current_requests, calls, notRate>>

\* the next minute begins
Tick ==
    /\ now < MaxMinute
    /\ now' = now + 1
    /\ UNCHANGED <<request_counts, rpc, client_ip, current_time, current_requests,
                   passed, calls, notRate>>

RateInit ==
    /\ now = 0
    /\ request_counts = NoCounts
    /\ rpc = [t \in Threads |-> "idle"]
    /\ client_ip = [t \in Threads |-> "ip1"]
    /\ current_time = [t \in Threads |-> 0]
    /\ current_requests = [t \in Threads |-> 0]
    /\ passed = NoCounts
    /\ calls = 0
    /\ TextQuiet
    /\ FontQuiet
    /\ WrapQuiet
    /\ GenQuiet
    /\ ConQuiet
    /\ DrawQuiet /\ PathQuiet /\ EvictQuiet

RateNext ==
    \/ \E t \in Threads : \E ip \in IPs : RateEnter(t, ip)
    \/ \E t \in Threads : RateCount(t)
    \/ \E t \in Threads : RateIncrement(t)
    \/ Tick
RateSpec == RateInit /\ [][RateNext]_vars

(***************************************************************************)
(* The cache file path of _get_google_font.  A family is a sequence of     *)
(* characters; a path is the sequence of its components after the          *)
(* operating system has resolved "." and "..".                             *)
(***************************************************************************)
FamilyChars == {"a", " ", ".", "/"}

\* the families CarouselConfigSchema accepts: Length(min=1, max=100)
Families == UNION {[1..n -> FamilyChars] : n \in 1..MaxFamilyLen}

\* self.fonts_dir = os.path.join(os.getcwd(), 'fonts')
fonts_dir == << <<"cwd">>, <<"fonts">> >>

\* family.replace(' ', '')
RemoveSpaces(f) == SelectSeq(f, LAMBDA c : c # " ")

\* f"{family.replace(' ', '')}-{weight}.ttf"; the suffix is kept as one token
font_filename(f) == RemoveSpaces(f) \o <<"-400.ttf">>

\* the components of a relative or absolute path name
RECURSIVE SplitSlashAcc(_, _, _)
SplitSlashAcc(s, cur, acc) ==
    IF s = <<>> THEN Append(acc, cur)
    ELSE IF Head(s) = "/" THEN SplitSlashAcc(Tail(s), <<>>, Append(acc, cur))
         ELSE SplitSlashAcc(Tail(s), Append(cur, Head(s)), acc)

SplitSlash(s) == SplitSlashAcc(s, <<>>, <<>>)

\* path resolution: "" and "." are skipped, ".." leaves the directory
RECURSIVE Resolve(_, _)
Resolve(dir, comps) ==
    IF comps = <<>> THEN dir
    ELSE LET c == Head(comps)
         IN  IF c = <<>> \/ c = <<".">> THEN Resolve(dir, Tail(comps))
             ELSE IF c = <<".", ".">>
                  THEN Resolve(IF dir = <<>> THEN dir ELSE SubSeq(dir, 1, Len(dir) - 1),
                               Tail(comps))
                  ELSE Resolve(Append(dir, c), Tail(comps))

\* os.path.join(self.fonts_dir, font_filename): an absolute second argument
\* replaces the first
font_path(f) ==
    LET name == font_filename(f)
    IN  IF Head(name) = "/" THEN Resolve(<<>>, SplitSlash(name))
        ELSE Resolve(fonts_dir, SplitSlash(name))

PathInit ==
    /\ family \in Families
    /\ path_built = <<>>
    /\ pop = "input"
    /\ TextQuiet
    /\ FontQuiet
    /\ WrapQuiet
    /\ GenQuiet
    /\ ConQuiet
    /\ DrawQuiet /\ RateQuiet /\ EvictQuiet

\* font_path is built and handed to os.path.exists
BuildFontPath ==
    /\ pop = "input"
    /\ path_built' = font_path(family)
    /\ pop' = "checked"
    /\ UNCHANGED <<family, notPath>>

PathNext == BuildFontPath
PathSpec == PathInit /\ [][PathNext]_vars

DimNext == CallGetImageDimensions
DimSpec == DimInit /\ [][DimNext]_vars


WrapNext == WrapText \/ BreakLongWord
WrapSpec == WrapInit /\ [][WrapNext]_vars


SegNext == ParseSlides \/ AutoSplitText
SegSpec == SegInit /\ [][SegNext]_vars

ClsNext == ParseSlideContent
ClsSpec == ClsInit /\ [][ClsNext]_vars

FontNext ==
    \E t \in Threads :
        \/ \E k \in Keys : HandleRequest(t, k)
        \/ \E k \in Keys : CallAgain(t, k)
        \/ PrepareFonts(t)
        \/ LocalCacheCheck(t)
        \/ MetadataLookup(t)
        \/ StylesheetScrape(t)
        \/ Download(t)
        \/ OpenFile(t)
        \/ WriteFile(t)
        \/ SystemFallback(t)
        \/ GetFont(t)
FontSpec == FontInit /\ [][FontNext]_vars

(***************************************************************************)
(* FontCacheResource.delete next to the resolver.  The resolver keeps its  *)
(* files in fonts_dir = <cwd>/fonts (disk); delete empties the directory   *)
(* named by FONTS_CACHE_DIR, 'fonts/cache/' (cache_files), which is        *)
(* missing, empty, or holds files.                                         *)
(***************************************************************************)
CacheDirStates == {"missing", "empty", "files"}

\* delete: os.path.exists(cache_dir), unlink or rmtree each entry (a failure
\* is logged and skipped), success_response on both branches
ClearFontCache ==
    /\ ~cleared
    /\ cleared' = TRUE
    /\ IF cache_files = "missing"
       THEN cache_files' = "missing"
       ELSE \E allDeleted \in BOOLEAN :
               cache_files' = IF allDeleted THEN "empty" ELSE cache_files
    /\ UNCHANGED notEvict

\* process start, with the FONTS_CACHE_DIR directory in any of its states
EvictInit ==
    /\ disk \in [Keys -> {"absent", "complete"}]
    /\ sysfont \in {"ok", "none"}
    /\ apiKey \in BOOLEAN
    /\ pc = [t \in Threads |-> "idle"]
    /\ key = [t \in Threads |-> "Inter-400"]
    /\ fonts_cache = [t \in Threads |-> EmptyCache]
    /\ content = [t \in Threads |-> "none"]
    /\ steps = [t \in Threads |-> <<>>]
    /\ won = [t \in Threads |-> "none"]
    /\ handle = [t \in Threads |-> "none"]
    /\ loadFailed = [t \in Threads |-> FALSE]
    /\ raised = [t \in Threads |-> FALSE]
    /\ reqs = 0
    /\ resolved = {}
    /\ late = [t \in Threads |-> FALSE]
    /\ cache_files \in CacheDirStates
    /\ cleared = FALSE
    /\ TextQuiet
    /\ WrapQuiet
    /\ GenQuiet
    /\ ConQuiet
    /\ DrawQuiet /\ RateQuiet /\ PathQuiet

EvictNext ==
    \/ FontNext
    \/ ClearFontCache
EvictSpec == EvictInit /\ [][EvictNext]_vars

(***************************************************************************)
(* Vocabulary of the properties.                                           *)
(***************************************************************************)
\* number of occurrences of the separator token in t
CountSep(t) == Cardinality({i \in 1..Len(t) : t[i].k = "sep"})

IsBlank(s) == \A i \in 1..Len(s) : IsWs(s[i])

\* the j-th smallest element of a set of numbers
Nth(S, j) == CHOOSE i \in S : Cardinality({m \in S : m <= i}) = j

\* the paragraph auto-split ran inside _parse_slides
AutoSplitTriggered(t) ==
    /\ Cardinality({i \in 1..Len(Split(t, "sep")) : ~IsBlank(Split(t, "sep")[i])}) = 1
    /\ TextLen(t) > AutoSplitThreshold

HasParagraphBreak(s) == \E i \in 1..Len(s) : s[i].k = "pb"

(***************************************************************************)
(* C1 (as stated): a text with exactly k occurrences of the separator      *)
(* yields exactly k+1 slides, the trimmed parts in their order, each       *)
(* non-empty.                                                              *)
(***************************************************************************)
C1_ExactlyKPlusOneSlides ==
    op = "parse_slides" =>
        LET parts == Split(text, "sep")
        IN  /\ Len(slides) = CountSep(text) + 1
            /\ \A i \in 1..Len(slides) : slides[i] # <<>>
            /\ \A i \in 1..Len(slides) : i <= Len(parts) => slides[i] = Strip(parts[i])

(***************************************************************************)
(* C1 (amended): every returned slide is non-empty; unless the auto-split  *)
(* ran, a text with k occurrences of the separator yields the trimmed      *)
(* non-blank parts in their order: at most k+1 slides, and exactly k+1     *)
(* when none of the k+1 parts is blank.                                    *)
(***************************************************************************)
C1_NonBlankPartsInOrder ==
    op = "parse_slides" =>
        LET parts == Split(text, "sep")
            k == CountSep(text)
            nb == {i \in 1..Len(parts) : ~IsBlank(parts[i])}
        IN  /\ Len(parts) = k + 1
            /\ \A i \in 1..Len(slides) : slides[i] # <<>>
            /\ ~AutoSplitTriggered(text) =>
                  /\ Len(slides) = Cardinality(nb)
                  /\ Len(slides) <= k + 1
                  /\ (Len(slides) = k + 1) <=> (nb = 1..(k + 1))
                  /\ \A j \in 1..Len(slides) : slides[j] = Strip(parts[Nth(nb, j)])

\* two separators, three non-blank parts, three slides
C1_Witness ==
    /\ op = "parse_slides"
    /\ CountSep(text) = 2
    /\ Len(slides) = 3

(***************************************************************************)
(* C2 (as stated): a text without the separator and of at most 1000        *)
(* characters yields exactly one slide, the trimmed text.                  *)
(***************************************************************************)
C2_OneSlideForShortText ==
    (op = "parse_slides" /\ CountSep(text) = 0 /\ TextLen(text) <= AutoSplitThreshold)
        => slides = <<Strip(text)>>

(***************************************************************************)
(* C2 (amended): a text without the separator and of at most 1000          *)
(* characters that has a non-whitespace character yields exactly one       *)
(* slide, the trimmed text; a blank text yields no slide.                  *)
(***************************************************************************)
C2_OneSlideForShortNonBlankText ==
    (op = "parse_slides" /\ CountSep(text) = 0 /\ TextLen(text) <= AutoSplitThreshold)
        => IF IsBlank(text) THEN slides = <<>> ELSE slides = <<Strip(text)>>

\* a short text with surrounding whitespace became one trimmed slide
C2_Witness ==
    /\ op = "parse_slides"
    /\ CountSep(text) = 0
    /\ TextLen(text) <= AutoSplitThreshold
    /\ Len(slides) = 1
    /\ slides[1] # text

(***************************************************************************)
(* C3: every slide of the auto-split is strictly shorter than 800          *)
(* characters, unless it is a single paragraph of 800 characters or more.  *)
(***************************************************************************)
C3_AutoSplitSlidesUnderLimit ==
    (op = "auto_split" \/ (op = "parse_slides" /\ AutoSplitTriggered(text))) =>
        \A i \in 1..Len(slides) :
            \/ TextLen(slides[i]) < max_chars_per_slide
            \/ (~HasParagraphBreak(slides[i]) /\ TextLen(slides[i]) >= max_chars_per_slide)

(***************************************************************************)
(* C4: one block per non-blank line, in line order; a line is classified   *)
(* by the first rule that matches: '**' at both ends -> title, the text    *)
(* between the markers; leading '#' -> title, without the leading '#' and   *)
(* surrounding whitespace; upper-case and shorter than 50 -> title, as is; *)
(* otherwise body.  Lines and block texts are taken trimmed.               *)
(***************************************************************************)
C4_OneBlockPerLineByPriority ==
    op = "parse_content" =>
        LET raw == SplitLines(text)
            nb == {i \in 1..Len(raw) : ~IsBlank(raw[i])}
            Bold(l) == /\ Len(l) >= 2
                       /\ {l[1].k, l[2].k, l[Len(l) - 1].k, l[Len(l)].k} = {"star"}
            Header(l) == l[1].k = "hash"
            Caps(l) == /\ \E i \in 1..Len(l) : l[i].k = "up"
                       /\ ~\E i \in 1..Len(l) : l[i].k = "lo"
                       /\ TextLen(l) < 50
            Inner(l) == [i \in 1..(IF Len(l) > 4 THEN Len(l) - 4 ELSE 0) |-> l[i + 2]]
            FirstNonHash(l) ==
                IF \A i \in 1..Len(l) : l[i].k = "hash" THEN Len(l) + 1
                ELSE Nth({i \in 1..Len(l) : l[i].k # "hash"}, 1)
        IN  /\ Len(blocks) = Cardinality(nb)
            /\ \A j \in 1..Len(blocks) :
                  LET l == Strip(raw[Nth(nb, j)])
                      b == blocks[j]
                  IN  IF Bold(l)
                      THEN b.type = "title" /\ b.text = Strip(Inner(l))
                      ELSE IF Header(l)
                      THEN b.type = "title"
                           /\ b.text = Strip(SubSeq(l, FirstNonHash(l), Len(l)))
                      ELSE IF Caps(l)
                      THEN b.type = "title" /\ b.text = l
                      ELSE b.type = "text" /\ b.text = l

\* a header line in upper case lost its '#', and a body line follows it
C4_Witness ==
    /\ op = "parse_content"
    /\ Len(blocks) = 2
    /\ text[1].k = "hash"
    /\ blocks[1] = [type |-> "title", text |-> <<Atom("up", 1)>>]
    /\ blocks[2].type = "text"

(***************************************************************************)
(* Vocabulary of the font properties.                                      *)
(***************************************************************************)
LastStep(t) == IF steps[t] = <<>> THEN "none" ELSE steps[t][Len(steps[t])].step

Tried(t, name) == \E i \in 1..Len(steps[t]) : steps[t][i].step = name

\* the chain steps are attempted in the fixed order, none twice
InChainOrder(t) ==
    \A i, j \in 1..Len(steps[t]) :
        i < j => ChainRank(steps[t][i].step) < ChainRank(steps[t][j].step)

\* the kind of font a chain step yields
FontOf(step) ==
    CASE step \in {"local", "metadata", "stylesheet"} -> "google"
      [] step = "system" -> "system"
      [] step = "builtin" -> "builtin"

(***************************************************************************)
(* C5: no exception escapes font resolution, and _prepare_fonts followed   *)
(* by _get_font ends with a drawable font, whatever the disk check, the    *)
(* network calls, the file write and the font loads do.                    *)
(***************************************************************************)
C5_ResolverNeverRaises ==
    \A t \in Threads :
        /\ ~raised[t]
        /\ pc[t] = "done" => handle[t] \in {"google", "system", "builtin"}

\* no cache file, the network fails, no system font: the builtin font
C5_Witness ==
    \E t \in Threads :
        /\ pc[t] = "done"
        /\ disk[key[t]] = "absent"
        /\ \E i \in 1..Len(steps[t]) : steps[t][i] = Step("stylesheet", "error")
        /\ handle[t] = "builtin"

(***************************************************************************)
(* C6 (as stated): the steps are attempted in the fixed order local cache  *)
(* file, metadata API, stylesheet, system fallback, builtin; after the     *)
(* first step that succeeds no later step is attempted, and the font of    *)
(* that step is the one used.                                              *)
(***************************************************************************)
C6_FirstSuccessWins ==
    \A t \in Threads :
        /\ InChainOrder(t)
        /\ won[t] # "none" =>
              /\ LastStep(t) = won[t]
              /\ pc[t] = "done" => handle[t] = FontOf(won[t])

(***************************************************************************)
(* C6 (amended): the steps are attempted in the fixed order; after the     *)
(* first step that succeeds no later step is attempted, its path is the    *)
(* one stored in fonts_cache and its font the one used, unless _get_font   *)
(* fails to load that font file: then the system fallback and the builtin  *)
(* font are still attempted, and one of them is used.                      *)
(***************************************************************************)
C6_FirstSuccessWinsUnlessLoadFails ==
    \A t \in Threads :
        /\ InChainOrder(t)
        /\ won[t] # "none" =>
              IF loadFailed[t]
              THEN /\ pc[t] = "done"
                   /\ handle[t] \in {"system", "builtin"}
                   /\ \A i \in 1..Len(steps[t]) :
                         ChainRank(steps[t][i].step) > ChainRank(won[t])
                             => steps[t][i].step \in {"system", "builtin"}
              ELSE /\ LastStep(t) = won[t]
                   /\ fonts_cache[t][key[t]] = FontOf(won[t])
                   /\ pc[t] = "done" => handle[t] = FontOf(won[t])

\* local miss, metadata without a match, stylesheet success: three steps
C6_Witness ==
    \E t \in Threads :
        /\ pc[t] = "done"
        /\ Len(steps[t]) = 3
        /\ won[t] = "stylesheet"
        /\ handle[t] = "google"

(***************************************************************************)
(* C7: whenever the metadata API lookup fails, the stylesheet scrape is    *)
(* attempted before the system fallback is used.                           *)
(***************************************************************************)
C7_StylesheetTriedAfterMetadataFails ==
    \A t \in Threads :
        (/\ \E i \in 1..Len(steps[t]) :
                steps[t][i].step = "metadata" /\ steps[t][i].res \in {"nomatch", "error"}
         /\ Tried(t, "system"))
            => Tried(t, "stylesheet")

(***************************************************************************)
(* C8 (as stated): a resolution that ends at the system fallback leaves    *)
(* the fonts_cache entry of the key as it was.                             *)
(***************************************************************************)
C8_FallbackLeavesCacheEntry ==
    [][\A t \in Threads :
          (pc[t] = "fallback" /\ pc'[t] = "get_font")
              => fonts_cache'[t][key[t]] = fonts_cache[t][key[t]]]_vars

(***************************************************************************)
(* C8 (amended): the system fallback step writes no font file, and it      *)
(* sets the fonts_cache entry of the key to the system fallback path (the  *)
(* empty string when no system font is found).                             *)
(***************************************************************************)
C8_FallbackStoresPathOnly ==
    [][\A t \in Threads :
          (pc[t] = "fallback" /\ pc'[t] = "get_font")
              => /\ disk' = disk
                 /\ fonts_cache'[t][key[t]] = (IF sysfont = "ok" THEN "system" ELSE "none")
                 /\ \A k \in Keys \ {key[t]} : fonts_cache'[t][k] = fonts_cache[t][k]]_vars

\* the resolution ended at the system fallback and the entry holds its path
C8_Witness ==
    \E t \in Threads :
        /\ pc[t] = "get_font"
        /\ LastStep(t) = "system"
        /\ fonts_cache[t][key[t]] = "system"

(***************************************************************************)
(* C9: a render that starts after its key was resolved in the process      *)
(* makes no metadata lookup and no stylesheet fetch for that key.          *)
(***************************************************************************)
C9_NoReResolution ==
    \A t \in Threads :
        late[t] => ~(Tried(t, "metadata") \/ Tried(t, "stylesheet"))

(***************************************************************************)
(* C10: no request takes a partially written font file for a local cache   *)
(* hit.                                                                    *)
(***************************************************************************)
C10_NoPartialCacheHit ==
    \A t \in Threads :
        \A i \in 1..Len(steps[t]) :
            steps[t][i].step = "local" => steps[t][i].res # "partial"


(***************************************************************************)
(* C11: every line returned by _wrap_text and every part returned by       *)
(* _break_long_word measures at most max_width, except a line that is one  *)
(* single character which is itself wider than max_width.                  *)
(***************************************************************************)
C11_LinesFitMaxWidth ==
    wop \in {"wrap_text", "break_long_word"} =>
        \A i \in 1..Len(wrapped) :
            \/ getbbox_width(wrapped[i]) <= max_width
            \/ Len(wrapped[i]) = 1 /\ CharWidth(wrapped[i][1]) > max_width

\* a text of several words was wrapped into several wrapped, one of them a
\* single character wider than max_width and one of them holding two words
C11_Witness ==
    /\ wop = "wrap_text"
    /\ Len(wrapped) >= 2
    /\ \E i \in 1..Len(wrapped) :
           Len(wrapped[i]) = 1 /\ CharWidth(wrapped[i][1]) > max_width
    /\ \E i \in 1..Len(wrapped) : \E j \in 1..Len(wrapped[i]) : wrapped[i][j] = " "


(***************************************************************************)
(* Vocabulary of the request properties.                                   *)
(***************************************************************************)
\* generate_carousel has segmented the text of the request
Segmented == gpc \notin {"validate", "parse"} /\ status # 400

InputErrors == {"validation_failed", "text_too_long", "no_slides", "too_many_slides"}

(***************************************************************************)
(* C12: generate_carousel raises whenever segmentation yields no slide or  *)
(* more than MAX_SLIDES slides, so every result it returns has             *)
(* 1 <= total_slides <= MAX_SLIDES.                                        *)
(***************************************************************************)
C12_SlideCountWithinLimits ==
    /\ result # <<>> => result[1].total_slides \in 1..MAX_SLIDES
    /\ (Segmented /\ gpc # "check" /\ Len(slides_text) \notin 1..MAX_SLIDES) =>
           /\ result = <<>>
           /\ error \in {"no_slides", "too_many_slides"}

\* a carousel of exactly MAX_SLIDES slides was returned
C12_Witness ==
    /\ result # <<>>
    /\ result[1].total_slides = MAX_SLIDES
    /\ Len(result[1].slides) = MAX_SLIDES

(***************************************************************************)
(* C13: when a request is rejected for empty text, for too long a text or  *)
(* for too many slides, no font resolution and no slide image creation     *)
(* has happened for it.                                                    *)
(***************************************************************************)
C13_InputErrorsBeforeRendering ==
    error \in InputErrors => ~font_work /\ draws = 0

\* a request with more than MAX_SLIDES parts was rejected and answered
C13_Witness ==
    /\ error = "too_many_slides"
    /\ Len(slides_text) > MAX_SLIDES
    /\ gpc = "responded"

(***************************************************************************)
(* C15: in every result total_slides is the length of slides, the i-th     *)
(* entry has slide_number i and the text of the i-th segment, and all      *)
(* entries have the width and height _get_image_dimensions returns.        *)
(***************************************************************************)
C15_ResultMatchesSegments ==
    result # <<>> =>
        LET r == result[1]
            segments == _parse_slides(text)
        IN  /\ r.total_slides = Len(r.slides)
            /\ Len(r.slides) = Len(segments)
            /\ \A i \in 1..Len(r.slides) :
                   /\ r.slides[i].slide_number = i
                   /\ r.slides[i].text = segments[i]
                   /\ r.slides[i].width = _get_image_dimensions(config)[1]
                   /\ r.slides[i].height = _get_image_dimensions(config)[2]

\* a carousel of several different slides with custom dimensions was returned
C15_Witness ==
    /\ result # <<>>
    /\ Len(result[1].slides) >= 3
    /\ result[1].slides[1].text # result[1].slides[2].text
    /\ HasCustom(config)

(***************************************************************************)
(* C16: if drawing one slide raises, generate_carousel raises and returns  *)
(* no result: a caller never receives a slide list shorter than the        *)
(* number of segmented slides.                                             *)
(***************************************************************************)
C16_AllSlidesOrFailure ==
    /\ error = "draw_failed" =>
           /\ result = <<>>
           /\ gpc \in {"raised", "responded"}
           /\ status \in {0, 500}
    /\ result # <<>> => Len(result[1].slides) >= Len(slides_text)

\* the draw of a later slide failed after earlier slides had been drawn, and
\* the request was answered with an error
C16_Witness ==
    /\ error = "draw_failed"
    /\ Len(slides_data) >= 1
    /\ Len(slides_data) < Len(slides_text)
    /\ status = 500


C17_PixelFormatIndependentOfRadius ==
    \A i \in 1..Len(slides_data) :
        slides_data[i].mode = PixelMode([config EXCEPT !.corner_radius = 0])


(***************************************************************************)
(* C18: the contrast ratio of white against black is 21.0 and the ratio of *)
(* a colour against itself is 1.0, computed as                             *)
(* (max(L1,L2)+0.05)/(min(L1,L2)+0.05) over the relative luminances.       *)
(***************************************************************************)
White == <<15, 15, 15, 15, 15, 15>>
Black == <<0, 0, 0, 0, 0, 0>>

C18_ContrastOfWhiteBlackAndSelf ==
    cop = "contrast_ratio" =>
        /\ ({color1, color2} = {White, Black}) => contrast[1] = 21 * contrast[2]
        /\ (color1 = color2) => contrast[1] = contrast[2]
        /\ contrast[1] >= contrast[2]
        /\ contrast[2] > 0

\* the ratio of black against white, the darker colour first, was computed
C18_Witness ==
    /\ cop = "contrast_ratio"
    /\ color1 = Black
    /\ color2 = White
    /\ contrast[1] = 21 * contrast[2]


RECURSIVE ParagraphsOfSlides(_)
ParagraphsOfSlides(ss) ==
    IF ss = <<>> THEN <<>> ELSE Split(Head(ss), "pb") \o ParagraphsOfSlides(Tail(ss))

C20_ParagraphsKeptWhole ==
    op = "auto_split" =>
        LET raw == Split(text, "pb")
            nb == {i \in 1..Len(raw) : ~IsBlank(raw[i])}
            out == ParagraphsOfSlides(slides)
        IN  /\ Len(out) = Cardinality(nb)
            /\ \A j \in 1..Len(out) : out[j] = Strip(raw[Nth(nb, j)])
            /\ \A i \in 1..Len(slides) :
                   (\E j \in 1..Len(Split(slides[i], "pb")) :
                        TextLen(Split(slides[i], "pb")[j]) >= max_chars_per_slide)
                       => Len(Split(slides[i], "pb")) = 1

\* three paragraphs became two slides: two short ones joined, and one of 800
\* characters on its own
C20_Witness ==
    /\ op = "auto_split"
    /\ Len(slides) = 2
    /\ Len(ParagraphsOfSlides(slides)) = 3
    /\ \E i \in 1..2 : TextLen(slides[i]) >= max_chars_per_slide /\ ~HasParagraphBreak(slides[i])


(***************************************************************************)
(* C21: _wrap_text is greedy: for every two consecutive output lines that  *)
(* are not parts of a character-broken word, the earlier line plus a space *)
(* plus the first word of the later line measures more than max_width.     *)
(***************************************************************************)
C21_GreedyLines ==
    wop = "wrap_text" =>
        LET broken == BrokenFlags(wtext, max_width)
        IN  \A i \in 1..(Len(wrapped) - 1) :
                (~broken[i] /\ ~broken[i + 1]) =>
                    getbbox_width(wrapped[i] \o <<" ">> \o SplitWords(wrapped[i + 1])[1])
                        > max_width

\* a line of two words was closed and followed by another unbroken line
C21_Witness ==
    /\ wop = "wrap_text"
    /\ Len(wrapped) >= 2
    /\ ~BrokenFlags(wtext, max_width)[1]
    /\ ~BrokenFlags(wtext, max_width)[2]
    /\ Len(SplitWords(wrapped[1])) = 2


(***************************************************************************)
(* C27: _wrap_text loses and reorders nothing: the returned lines,         *)
(* concatenated and with all whitespace removed, are the input text with   *)
(* all whitespace removed, also when words are broken into characters.     *)
(***************************************************************************)
RECURSIVE Concat(_)
Concat(ss) == IF ss = <<>> THEN <<>> ELSE Head(ss) \o Concat(Tail(ss))

WithoutSpaces(s) == SelectSeq(s, LAMBDA c : c # " ")

C27_WrapKeepsAllCharacters ==
    wop = "wrap_text" => WithoutSpaces(Concat(wrapped)) = WithoutSpaces(wtext)

\* a text of several words was wrapped and character breaking gave two lines
C27_Witness ==
    /\ wop = "wrap_text"
    /\ Len(SplitWords(wtext)) >= 2
    /\ Cardinality({i \in 1..Len(wrapped) : BrokenFlags(wtext, max_width)[i]}) >= 2
    /\ WithoutSpaces(Concat(wrapped)) = WithoutSpaces(wtext)


(***************************************************************************)
(* C26: no slide returned by _parse_slides contains the separator token,   *)
(* also for texts longer than 1000 characters that go through auto-split.  *)
(***************************************************************************)
C26_NoSeparatorInSlides ==
    op = "parse_slides" =>
        \A i \in 1..Len(slides) : \A j \in 1..Len(slides[i]) : slides[i][j].k # "sep"


(***************************************************************************)
(* C28: every content block returned by _parse_slide_content has           *)
(* non-empty text, also for lines made only of markers.                    *)
(***************************************************************************)
C28_BlocksHaveText ==
    op = "parse_content" => \A i \in 1..Len(blocks) : blocks[i].text # <<>>


(***************************************************************************)
(* Vocabulary of the drawing properties.                                   *)
(***************************************************************************)
ContentEvents == {i \in 1..Len(events) : events[i].ev \in {"line", "gap"}}
LineEvents == {i \in 1..Len(events) : events[i].ev = "line"}
GapEvents == {i \in 1..Len(events) : events[i].ev = "gap"}
PageEvents == {i \in 1..Len(events) : events[i].ev = "page"}
LogoEvents == {i \in 1..Len(events) : events[i].ev = "logo"}

(***************************************************************************)
(* C22: the horizontal origin of a drawn line is padding for left,         *)
(* padding + (content_width - line_width) / 2 for center and               *)
(* padding + content_width - line_width for right, so every line with      *)
(* line_width <= content_width lies inside the content box.                *)
(***************************************************************************)
C22_LineInsideContentBox ==
    \A i \in LineEvents :
        LET e == events[i]
            free == dcfg.content_width - e.w
        IN  /\ dcfg.text_align = "left" => e.x = dcfg.padding
            /\ dcfg.text_align = "center" => e.x = dcfg.padding + (free \div 2)
            /\ dcfg.text_align = "right" => e.x = dcfg.padding + free
            /\ e.w <= dcfg.content_width =>
                   /\ dcfg.padding <= e.x
                   /\ e.x + e.w <= dcfg.padding + dcfg.content_width

\* a right-aligned line narrower than the content box ends at the right edge
C22_Witness ==
    /\ dcfg.text_align = "right"
    /\ \E i \in LineEvents :
           /\ events[i].w < dcfg.content_width
           /\ events[i].x > dcfg.padding
           /\ events[i].x + events[i].w = dcfg.padding + dcfg.content_width

(***************************************************************************)
(* C23: the vertical cursor starts at the padding, never decreases, and    *)
(* after the lines of each block advances by exactly 30 pixels for a title *)
(* and 20 pixels for a body block; blocks are drawn top to bottom in list  *)
(* order.                                                                  *)
(***************************************************************************)
C23_CursorAdvances ==
    /\ y_position >= dcfg.padding
    /\ ContentEvents # {} => events[1].y = dcfg.padding
    /\ \A i \in ContentEvents : \A j \in ContentEvents :
           i < j => /\ events[i].y <= events[j].y
                    /\ events[i].block <= events[j].block
    /\ \A i \in GapEvents :
           /\ events[i].to - events[i].y =
                  (IF parsed_content[events[i].block].type = "title" THEN 30 ELSE 20)
           /\ \A j \in ContentEvents : j > i => events[j].y >= events[i].to
    /\ dpc \in {"page_numbers", "logo_text", "save", "saved"} =>
           /\ Cardinality(GapEvents) = Len(parsed_content)
           /\ \A i \in GapEvents : events[i].to <= y_position

\* a title of one line and a body block of several lines were drawn
C23_Witness ==
    /\ dpc = "saved"
    /\ Len(parsed_content) = 2
    /\ parsed_content[1].type = "title"
    /\ parsed_content[2].type = "text"
    /\ Cardinality({i \in LineEvents : events[i].block = 2}) >= 2
    /\ \E i \in GapEvents : events[i].to - events[i].y = 30
    /\ \E i \in GapEvents : events[i].to - events[i].y = 20

(***************************************************************************)
(* C24: decorations are drawn only after all content blocks: the page      *)
(* number "{slide_number}/{total_slides}" exactly when add_page_numbers is *)
(* enabled, the logo text exactly when add_logo_text is enabled and        *)
(* logo_text is non-empty.                                                 *)
(***************************************************************************)
C24_DecorationsAfterContent ==
    /\ \A i \in PageEvents \cup LogoEvents :
           /\ \A j \in ContentEvents : j < i
           /\ Cardinality(GapEvents) = Len(parsed_content)
    /\ \A i \in PageEvents : events[i].text = <<dcfg.slide_number, dcfg.total_slides>>
    /\ \A i \in LogoEvents : events[i].text = dcfg.logo_text
    /\ dpc \in {"logo_text", "save", "saved"} =>
           Cardinality(PageEvents) = (IF dcfg.add_page_numbers THEN 1 ELSE 0)
    /\ dpc \in {"save", "saved"} =>
           Cardinality(LogoEvents) =
               (IF dcfg.add_logo_text /\ dcfg.logo_text # "" THEN 1 ELSE 0)
    /\ dpc \notin {"logo_text", "save", "saved"} => PageEvents = {}
    /\ dpc \notin {"save", "saved"} => LogoEvents = {}

\* a slide with the page number drawn and the logo enabled but empty
C24_Witness ==
    /\ dpc = "saved"
    /\ dcfg.add_page_numbers
    /\ dcfg.add_logo_text
    /\ dcfg.logo_text = ""
    /\ PageEvents # {}
    /\ LogoEvents = {}


(***************************************************************************)
(* C25: the rate-limit decorator lets through at most requests_per_minute  *)
(* calls per client IP within one minute window, also when requests of the *)
(* same IP are handled by concurrent threads.                              *)
(***************************************************************************)
C25_AtMostLimitPerWindow ==
    rpc # <<>> =>
        \A ip \in IPs : \A m \in Minutes : passed[ip][m] <= requests_per_minute


(***************************************************************************)
(* C29: for every font family the request schema accepts, the cache file   *)
(* path that _get_google_font checks and writes lies inside the fonts      *)
(* directory.                                                              *)
(***************************************************************************)
C29_FontPathInsideFontsDir ==
    pop = "checked" =>
        /\ Len(path_built) > Len(fonts_dir)
        /\ SubSeq(path_built, 1, Len(fonts_dir)) = fonts_dir


(***************************************************************************)
(* C30: when FontCacheResource.delete has answered with success, no font   *)
(* file persisted by the resolver is left on disk, so the local cache      *)
(* check of the next resolution misses.                                    *)
(***************************************************************************)
C30_ClearRemovesResolverFiles ==
    [][(~cleared /\ cleared') => \A k \in Keys : ~Exists(k)']_vars

=============================================================================
